---------------------------- MODULE Spec2Model ----------------------------
(***************************************************************************)
(* A model of src/src/RcppML.cpp: the NNLS solver (c_nnls, c_cdnnls), the  *)
(* rank-2 closed-form kernel, the column-parallel projection, the mean     *)
(* squared error and the ALS drivers (general k and rank 2).               *)
(*                                                                         *)
(* Numbers.  The program computes in IEEE doubles.  The model computes in  *)
(* exact rationals <<n, d>> (d > 0, lowest terms), extended with the IEEE  *)
(* non-finite values a division by zero produces: <<1,0>> = +inf,         *)
(* <<-1,0>> = -inf, <<0,0>> = NaN (signed zeros are not distinguished).    *)
(* Rounding is not modelled.  TLC's integers are 32 bits wide, so a        *)
(* value whose numerator or denominator would exceed MaxMag becomes the    *)
(* marker OVF; a run that meets OVF leaves the model (pc = "cut") and is   *)
(* not explored further.  For the same reason the program's tiny constants *)
(* 1e-15 (ridge) and 1e-16 (CD denominator) are the positive rationals     *)
(* 1/RidgeDen and 1/CdEpsDen: the properties checked use only that they    *)
(* are positive.                                                           *)
(***************************************************************************)
EXTENDS Integers, Sequences, FiniteSets, TLC

(***************************************************************************)
(* Bounds of the model.                                                    *)
(***************************************************************************)
MaxMag   == 1000000000   \* largest numerator / denominator kept
RidgeDen == 2            \* the ridge 1e-15 is modelled as 1/RidgeDen
CdEpsDen == 2            \* the CD epsilon 1e-16 is modelled as 1/CdEpsDen
CdTolDen == 100          \* cd_tol (an input) is 1/CdTolDen
TolDen   == 10           \* tol (an input) is 1/TolDen
MaxIter  == 2            \* largest maxit given to a driver
NThreads == 2            \* workers of a parallel region

(***************************************************************************)
(* Double arithmetic, as exact rationals with inf / NaN.                   *)
(***************************************************************************)
Abs(n) == IF n < 0 THEN -n ELSE n
Sgn(n) == IF n > 0 THEN 1 ELSE IF n < 0 THEN -1 ELSE 0

RECURSIVE Gcd(_, _)
Gcd(a, b) == IF b = 0 THEN a ELSE Gcd(b, a % b)

OVF  == <<0, -1>>
NaN  == <<0, 0>>
Zero == <<0, 1>>
One  == <<1, 1>>
Two  == <<2, 1>>
Inf(s) == <<s, 0>>
RInt(n) == <<n, 1>>

IsOvf(x)    == x[2] < 0
IsFinite(x) == x[2] > 0
IsNaN(x)    == x = NaN

\* |p * q| <= MaxMag, decided without forming the product
Fits(p, q) == p = 0 \/ q = 0 \/ Abs(p) <= MaxMag \div Abs(q)

Norm(n, d) ==
  LET g == Gcd(Abs(n), d)
      r == <<Sgn(n) * (Abs(n) \div g), d \div g>>
  IN  IF Abs(r[1]) > MaxMag \/ r[2] > MaxMag THEN OVF ELSE r

RNeg(x) == IF IsOvf(x) THEN OVF ELSE <<-x[1], x[2]>>
RAbs(x) == IF IsOvf(x) THEN OVF ELSE <<Abs(x[1]), x[2]>>

RMul(x, y) ==
  IF IsOvf(x) \/ IsOvf(y) THEN OVF
  ELSE IF x[2] = 0 \/ y[2] = 0
    THEN IF IsNaN(x) \/ IsNaN(y) \/ x[1] = 0 \/ y[1] = 0
           THEN NaN ELSE Inf(Sgn(x[1]) * Sgn(y[1]))
    ELSE LET g1 == Gcd(Abs(x[1]), y[2])
             g2 == Gcd(Abs(y[1]), x[2])
             n1 == x[1] \div g1
             n2 == y[1] \div g2
             d1 == x[2] \div g2
             d2 == y[2] \div g1
         IN  IF Fits(Abs(n1), Abs(n2)) /\ Fits(d1, d2)
               THEN <<Sgn(n1) * Sgn(n2) * (Abs(n1) * Abs(n2)), d1 * d2>>
               ELSE OVF

RDiv(x, y) ==
  IF IsOvf(x) \/ IsOvf(y) THEN OVF
  ELSE IF IsNaN(x) \/ IsNaN(y) THEN NaN
  ELSE IF y[2] = 0                                  \* y = +-inf
    THEN IF x[2] = 0 THEN NaN ELSE Zero
  ELSE IF y[1] = 0                                  \* y = 0
    THEN IF x[1] = 0 THEN NaN ELSE Inf(Sgn(x[1]))
  ELSE RMul(x, <<Sgn(y[1]) * y[2], Abs(y[1])>>)

RAdd(x, y) ==
  IF IsOvf(x) \/ IsOvf(y) THEN OVF
  ELSE IF IsNaN(x) \/ IsNaN(y) THEN NaN
  ELSE IF x[2] = 0 /\ y[2] = 0 THEN (IF x[1] = y[1] THEN x ELSE NaN)
  ELSE IF x[2] = 0 THEN x
  ELSE IF y[2] = 0 THEN y
  ELSE LET g  == Gcd(x[2], y[2])
           dx == x[2] \div g
           dy == y[2] \div g
       IN  IF Fits(Abs(x[1]), dy) /\ Fits(Abs(y[1]), dx) /\ Fits(dx, y[2])
             THEN Norm(x[1] * dy + y[1] * dx, dx * y[2])
             ELSE OVF

RSub(x, y) == RAdd(x, RNeg(y))

\* comparison of two positive fractions by their continued fractions: exact,
\* and no product is formed.  -1: less, 0: equal, 1: greater
RECURSIVE CmpPos(_, _, _, _)
CmpPos(n1, d1, n2, d2) ==
  LET q1 == n1 \div d1
      q2 == n2 \div d2
      r1 == n1 % d1
      r2 == n2 % d2
  IN  IF q1 # q2 THEN (IF q1 < q2 THEN -1 ELSE 1)
      ELSE IF r1 = 0 /\ r2 = 0 THEN 0
      ELSE IF r1 = 0 THEN -1
      ELSE IF r2 = 0 THEN 1
      ELSE - CmpPos(d1, r1, d2, r2)

\* -1, 0, 1 as above for ordered operands; 2 when unordered (a NaN, or OVF)
RCmp(x, y) ==
  IF IsOvf(x) \/ IsOvf(y) \/ IsNaN(x) \/ IsNaN(y) THEN 2
  ELSE IF x[2] = 0 \/ y[2] = 0
    THEN LET sx == IF x[2] = 0 THEN 2 * x[1] ELSE 0
             sy == IF y[2] = 0 THEN 2 * y[1] ELSE 0
         IN  Sgn(sx - sy)
  ELSE IF Sgn(x[1]) # Sgn(y[1]) THEN Sgn(Sgn(x[1]) - Sgn(y[1]))
  ELSE IF x[1] = 0 THEN 0
  ELSE IF x[1] > 0 THEN CmpPos(x[1], x[2], y[1], y[2])
  ELSE CmpPos(-y[1], y[2], -x[1], x[2])

RLt(x, y) == RCmp(x, y) = -1
RGt(x, y) == RCmp(x, y) = 1
RLe(x, y) == RCmp(x, y) \in {-1, 0}
RGe(x, y) == RCmp(x, y) \in {0, 1}

Ridge == <<1, RidgeDen>>
CdEps == <<1, CdEpsDen>>
CdTol == <<1, CdTolDen>>
Tol   == <<1, TolDen>>

(***************************************************************************)
(* Vectors are sequences of numbers, matrices sequences of rows.           *)
(***************************************************************************)
RECURSIVE RSum(_)
RSum(s) == IF s = << >> THEN Zero ELSE RAdd(Head(s), RSum(Tail(s)))

\* the same sequence, with its entries evaluated once
Vec(f) == f \o << >>
Mat(M) == [i \in 1..Len(M) |-> Vec(M[i])] \o << >>

Dot(u, v) == RSum([i \in 1..Len(u) |-> RMul(u[i], v[i])])
Col(M, j) == [i \in 1..Len(M) |-> M[i][j]]
NCols(M)  == IF M = << >> THEN 0 ELSE Len(M[1])
Transpose(M) == [j \in 1..NCols(M) |-> Col(M, j)]
ZeroMat(r, c) == [i \in 1..r |-> [j \in 1..c |-> Zero]]
IntVec(v) == [i \in 1..Len(v) |-> RInt(v[i])]
IntMat(M) == [i \in 1..Len(M) |-> IntVec(M[i])]

VecOvf(v) == \E i \in 1..Len(v) : IsOvf(v[i])
MatOvf(M) == \E i \in 1..Len(M) : VecOvf(M[i])
OvfVec(k) == [i \in 1..k |-> OVF]
VecFinite(v) == \A i \in 1..Len(v) : IsFinite(v[i])
MatFinite(M) == \A i \in 1..Len(M) : VecFinite(M[i])

(***************************************************************************)
(* SECTION 2 of the source: non-negative least squares.                    *)
(***************************************************************************)
\* C++ operator != on doubles: a NaN differs from everything
RNeq(x, y) == IsNaN(x) \/ IsNaN(y) \/ x # y

\* a_llt.solve(b): the solution of a x = b by symmetric elimination
RECURSIVE Solve(_, _)
Solve(a, b) ==
  LET k == Len(b) IN
  IF k = 0 THEN << >>
  ELSE IF k = 1 THEN << RDiv(b[1], a[1][1]) >>
  ELSE LET p  == a[1][1]
           a2 == Mat([i \in 1..(k-1) |-> [j \in 1..(k-1) |->
                    RSub(a[i+1][j+1], RDiv(RMul(a[i+1][1], a[1][j+1]), p))]])
           b2 == Vec([i \in 1..(k-1) |-> RSub(b[i+1], RDiv(RMul(a[i+1][1], b[1]), p))])
           x2 == Solve(a2, b2)
           s  == RSum([j \in 1..(k-1) |-> RMul(a[1][j+1], x2[j])])
       IN  << RDiv(RSub(b[1], s), p) >> \o x2

\* find_gtz: the indices of the values greater than zero, in increasing order
RECURSIVE GtzFrom(_, _)
GtzFrom(x, i) ==
  IF i > Len(x) THEN << >>
  ELSE IF RGt(x[i], Zero) THEN <<i>> \o GtzFrom(x, i + 1)
  ELSE GtzFrom(x, i + 1)

find_gtz(x) == GtzFrom(x, 1)

AnyNeg(x) == \E i \in 1..Len(x) : RLt(x[i], Zero)

\* position of index i in the index vector g (0 when absent)
PosIn(g, i) == IF \E p \in 1..Len(g) : g[p] = i
                 THEN CHOOSE p \in 1..Len(g) : g[p] = i ELSE 0

\* a round that solves on the feasible set and leaves the other entries of x
\* as they were
FastRoundNoReset(a, b, x) ==
  LET gtz_ind == find_gtz(x)
      bsub == [i \in 1..Len(gtz_ind) |-> b[gtz_ind[i]]]
      asub == [i \in 1..Len(gtz_ind) |->
                [j \in 1..Len(gtz_ind) |-> a[gtz_ind[i]][gtz_ind[j]]]]
      xsub == Solve(asub, bsub)
  IN  Vec([i \in 1..Len(x) |->
         IF PosIn(gtz_ind, i) = 0 THEN x[i] ELSE xsub[PosIn(gtz_ind, i)]])

\* one round of the feasible-set loop of c_nnls (its body)
FastRound(a, b, x) ==
  LET gtz_ind == find_gtz(x)
      bsub == [i \in 1..Len(gtz_ind) |-> b[gtz_ind[i]]]
      asub == [i \in 1..Len(gtz_ind) |->
                [j \in 1..Len(gtz_ind) |-> a[gtz_ind[i]][gtz_ind[j]]]]
      xsub == Solve(asub, bsub)
  IN  Vec([i \in 1..Len(x) |->
         IF PosIn(gtz_ind, i) = 0 THEN Zero ELSE xsub[PosIn(gtz_ind, i)]])

\* the loop condition of the feasible-set loop
FastCond(nonneg, it, fast_maxit, x) == nonneg /\ it < fast_maxit /\ AnyNeg(x)

RECURSIVE FastLoop(_, _, _, _, _, _)
FastLoop(a, b, x, it, fast_maxit, nonneg) ==
  IF VecOvf(x) THEN OvfVec(Len(x))
  ELSE IF FastCond(nonneg, it, fast_maxit, x)
    THEN FastLoop(a, b, FastRound(a, b, x), it + 1, fast_maxit, nonneg)
    ELSE x

\* one coordinate of a CD sweep: st = [x, b0, tol] -> the same after index i
CdCoord(a, st, i, nonneg) ==
  LET x   == st.x
      xi0 == RSub(x[i], RDiv(st.b0[i], a[i][i]))
      xi  == IF nonneg /\ RLt(xi0, Zero) THEN Zero ELSE xi0
  IN  IF IsOvf(xi0) \/ st.ovf THEN [st EXCEPT !.ovf = TRUE]
      ELSE IF RNeq(xi, x[i])
        THEN LET dx  == RSub(xi, x[i])
                 nb0 == Vec([r \in 1..Len(x) |-> RAdd(st.b0[r], RMul(a[r][i], dx))])
                 txi == RDiv(RMul(Two, RAbs(RSub(x[i], xi))),
                             RAdd(RAdd(xi, x[i]), CdEps))
             IN  [x   |-> [x EXCEPT ![i] = xi],
                  b0  |-> nb0,
                  tol |-> IF RGt(txi, st.tol) THEN txi ELSE st.tol,
                  ovf |-> VecOvf(nb0) \/ IsOvf(txi)]
        ELSE st

RECURSIVE CdSweep(_, _, _, _)
CdSweep(a, st, i, nonneg) ==
  IF i > Len(st.x) THEN st
  ELSE CdSweep(a, CdCoord(a, st, i, nonneg), i + 1, nonneg)

RECURSIVE CdLoop(_, _, _, _, _, _)
CdLoop(a, st, it, cd_maxit, cd_tol, nonneg) ==
  IF st.ovf THEN st
  ELSE IF it < cd_maxit /\ RGt(st.tol, cd_tol)
    THEN CdLoop(a, CdSweep(a, [st EXCEPT !.tol = Zero], 1, nonneg),
                it + 1, cd_maxit, cd_tol, nonneg)
    ELSE st

\* coordinate descent least squares given an initial x
c_cdnnls(a, b, x, cd_maxit, cd_tol, nonneg) ==
  LET b0 == Vec([i \in 1..Len(x) |-> RSub(Dot(a[i], x), b[i])])
      st == CdLoop(a, [x |-> x, b0 |-> b0, tol |-> RAdd(One, cd_tol),
                       ovf |-> VecOvf(b0) \/ VecOvf(x)],
                   0, cd_maxit, cd_tol, nonneg)
  IN  IF st.ovf THEN OvfVec(Len(x)) ELSE st.x

\* the return statement of c_nnls: CD polish unless cd_maxit = 0 and nonneg
Polish(a, b, x, cd_maxit, cd_tol, nonneg) ==
  IF VecOvf(x) THEN OvfVec(Len(x))
  ELSE IF cd_maxit = 0 /\ nonneg THEN x
  ELSE c_cdnnls(a, b, x, cd_maxit, cd_tol, nonneg)

\* FAST least squares given a, b and the decomposition of a
c_nnls(a, b, fast_maxit, cd_maxit, cd_tol, nonneg) ==
  Polish(a, b, FastLoop(a, b, Solve(a, b), 0, fast_maxit, nonneg),
         cd_maxit, cd_tol, nonneg)

\* the rank-2 closed form of Rcpp_nmf2_*: a is 2 x 2, the result <<x0, x1>>
Kernel2(a, b0, b1, nonneg) ==
  LET denom == RSub(RMul(a[1][1], a[2][2]), RMul(a[1][2], a[1][2]))
      a01b1 == RMul(a[1][2], b1)
      a11b0 == RMul(a[2][2], b0)
      a01b0 == RMul(a[1][2], b0)
      a00b1 == RMul(a[1][1], b1)
  IN  IF VecOvf(<<denom, a01b1, a11b0, a01b0, a00b1>>) THEN << OVF, OVF >>
      ELSE IF nonneg
        THEN IF RLt(a11b0, a01b1) THEN << Zero, RDiv(b1, a[2][2]) >>
             ELSE IF RLt(a00b1, a01b0) THEN << RDiv(b0, a[1][1]), Zero >>
             ELSE << RDiv(RSub(a11b0, a01b1), denom),
                     RDiv(RSub(a00b1, a01b0), denom) >>
        ELSE << RDiv(RSub(a11b0, a01b1), denom),
                RDiv(RSub(a00b1, a01b0), denom) >>

(***************************************************************************)
(* SECTION 3 of the source: the sparse matrix class.  A dgCMatrix is kept  *)
(* as its dimensions and, per column, the <<row, value>> pairs of the      *)
(* stored (non-zero) entries in row order: what InnerIterator(A, col)      *)
(* walks through.                                                          *)
(***************************************************************************)
RECURSIVE InnerFrom(_, _, _)
InnerFrom(A, col, r) ==
  IF r > Len(A) THEN << >>
  ELSE IF A[r][col] = Zero THEN InnerFrom(A, col, r + 1)
  ELSE << <<r, A[r][col]>> >> \o InnerFrom(A, col, r + 1)

InnerIterator(A, col) == InnerFrom(A, col, 1)

dgCMatrix(A) ==
  [Dim |-> <<Len(A), NCols(A)>>,
   inner |-> [c \in 1..NCols(A) |-> InnerIterator(A, c)]]

(***************************************************************************)
(* SECTION 4 of the source: projection.  A is m x n, w is k x (columns),   *)
(* the result h is k x n.  No shape is checked: an element of w read past  *)
(* its last column is whatever the memory holds, the value g.              *)
(***************************************************************************)
WRead(w, j, c, g) == IF c <= Len(w[j]) THEN w[j][c] ELSE g

\* a = w * w.transpose(), then the ridge on the diagonal
Gram(w) ==
  Mat([i \in 1..Len(w) |-> [j \in 1..Len(w) |->
     IF i = j THEN RAdd(Dot(w[i], w[j]), Ridge) ELSE Dot(w[i], w[j])]])

\* the L1 penalty is subtracted from b unless it is zero
PenalizeL1(b, L1) ==
  IF L1 # Zero THEN Vec([j \in 1..Len(b) |-> RSub(b[j], L1)]) ELSE Vec(b)

\* right-hand side of column i, dense A: b += A(it, i) * w.col(it), all rows it
BDense(A, w, i, L1, g) ==
  PenalizeL1([j \in 1..Len(w) |->
     RSum([r \in 1..Len(A) |-> RMul(A[r][i], WRead(w, j, r, g))])], L1)

\* right-hand side of column i, sparse A: only the stored entries are visited
BSparse(S, w, i, L1, g) ==
  PenalizeL1([j \in 1..Len(w) |->
     RSum([e \in 1..Len(S.inner[i]) |->
        RMul(S.inner[i][e][2], WRead(w, j, S.inner[i][e][1], g))])], L1)

\* does column i read w past its last column?
ReadsPastDense(A, w, i) == Len(w) > 0 /\ Len(A) > Len(w[1])
ReadsPastSparse(S, w, i) ==
  Len(w) > 0 /\ \E e \in 1..Len(S.inner[i]) : S.inner[i][e][1] > Len(w[1])

\* the matrix whose columns are the given vectors of length k
FromCols(cols, k) == Mat([j \in 1..k |-> [i \in 1..Len(cols) |-> cols[i][j]]])

\* a worker that stored every result in the first column
WriteFirstCol(h, i, x) == [j \in 1..Len(h) |-> [h[j] EXCEPT ![1] = x[j]]]

\* h.col(i) = x
WriteCol(h, i, x) == [j \in 1..Len(h) |-> [h[j] EXCEPT ![i] = x[j]]]

\* Rcpp_project_dense with its columns taken one after the other; behind is
\* what a read past the last column of w finds
Rcpp_project_dense(A, w, nonneg, fast_maxit, cd_maxit, cd_tol, L1, behind) ==
  LET a == Gram(w)
  IN  FromCols([i \in 1..NCols(A) |->
                  c_nnls(a, BDense(A, w, i, L1, behind),
                         fast_maxit, cd_maxit, cd_tol, nonneg)], Len(w))

\* c_project_sparse with its columns taken one after the other
c_project_sparse(S, w, nonneg, fast_maxit, cd_maxit, cd_tol, L1, behind) ==
  LET a == Gram(w)
  IN  FromCols([i \in 1..S.Dim[2] |->
                  c_nnls(a, BSparse(S, w, i, L1, behind),
                         fast_maxit, cd_maxit, cd_tol, nonneg)], Len(w))

(***************************************************************************)
(* SECTION 5 of the source: mean squared error of a factorization.  A is   *)
(* m x n, h is k x n, d has k entries, and w is what the caller passed:    *)
(* m x k or k x m.                                                         *)
(***************************************************************************)
\* if (w.rows() == h.rows()) w.transposeInPlace();
MseOrient(w, h) == IF Len(w) = Len(h) THEN Mat(Transpose(w)) ELSE w

\* "multiply w by diagonal": w(j, i) *= d(i)
MseScale(w, d) ==
  Mat([j \in 1..Len(w) |-> [i \in 1..NCols(w) |-> RMul(w[j][i], d[i])]])

\* wh_i = w * h.col(i)
MatVec(w, v) == Vec([j \in 1..Len(w) |-> Dot(w[j], v)])

\* wh_i(iter.row()) -= iter.value() over the stored entries of a column
RECURSIVE SubInner(_, _)
SubInner(v, inner) ==
  IF inner = << >> THEN v
  ELSE LET e == Head(inner)
       IN  SubInner([v EXCEPT ![e[1]] = RSub(v[e[1]], e[2])], Tail(inner))

\* wh_i(iter) -= A(iter, i) for every row of A
SubDense(v, A, i) ==
  [j \in 1..Len(v) |-> IF j <= Len(A) THEN RSub(v[j], A[j][i]) ELSE v[j]]

\* losses(i): the sum of the squares of wh_i after A's column is taken off
SumSq(v) == RSum([j \in 1..Len(v) |-> RMul(v[j], v[j])])
LossSparse(S, w, h, i) == SumSq(SubInner(MatVec(w, Col(h, i)), S.inner[i]))
LossDense(A, w, h, i)  == SumSq(SubDense(MatVec(w, Col(h, i)), A, i))

\* return losses.sum() / (A.cols() * A.rows())
MseMean(losses, rows, cols) == RDiv(RSum(losses), RInt(cols * rows))

Rcpp_mse_sparse(S, w, d, h) ==
  LET wd == MseScale(MseOrient(w, h), d)
  IN  MseMean([i \in 1..S.Dim[2] |-> LossSparse(S, wd, h, i)],
              S.Dim[1], S.Dim[2])

Rcpp_mse_dense(A, w, d, h) ==
  LET wd == MseScale(MseOrient(w, h), d)
  IN  MseMean([i \in 1..NCols(A) |-> LossDense(A, wd, h, i)],
              Len(A), NCols(A))

(***************************************************************************)
(* SECTION 6 of the source: pieces of the ALS drivers.                     *)
(***************************************************************************)
\* a rescale without the ridge
ScaleRowNoRidge(row) ==
  LET di == RSum(row)
  IN  [d |-> di, row |-> Vec([j \in 1..Len(row) |-> RDiv(row[j], di)])]

\* "reset diagonal and scale": d[i] = row sum + ridge, the row divided by d[i]
ScaleRow(row) ==
  LET di == RAdd(RSum(row), Ridge)
  IN  [d |-> di, row |-> Vec([j \in 1..Len(row) |-> RDiv(row[j], di)])]

Rescale(M, d, diag) ==
  IF diag
    THEN [m |-> [i \in 1..Len(M) |-> ScaleRow(M[i]).row],
          d |-> [i \in 1..Len(M) |-> ScaleRow(M[i]).d]]
    ELSE [m |-> M, d |-> d]

\* all entries of a matrix in one sequence
RECURSIVE Flat(_)
Flat(M) == IF M = << >> THEN << >> ELSE Head(M) \o Flat(Tail(M))

\* cor(x, y) = 1 - num / sqrt(rad); the model keeps num and rad
cor(x, y) ==
  LET xs == Flat(x)
      ys == Flat(y)
      n  == RInt(Len(xs))
      sum_x  == RSum(xs)
      sum_y  == RSum(ys)
      sum_xy == Dot(xs, ys)
      sum_x2 == Dot(xs, xs)
      sum_y2 == Dot(ys, ys)
  IN  [num |-> RSub(RMul(n, sum_xy), RMul(sum_x, sum_y)),
       rad |-> RMul(RSub(RMul(n, sum_x2), RMul(sum_x, sum_x)),
                    RSub(RMul(n, sum_y2), RMul(sum_y, sum_y)))]

\* tol_ = 1 before the first iteration
TolOne == [num |-> Zero, rad |-> One]

CorOvf(c) == IsOvf(c.num) \/ IsOvf(c.rad)

\* quantities the test tol_ < tol needs: (1 - tol)^2 * rad and num^2
ScaledRad(c, tol) == RMul(RMul(RSub(One, tol), RSub(One, tol)), c.rad)
TestOvf(c, tol) == CorOvf(c) \/ IsOvf(ScaledRad(c, tol)) \/ IsOvf(RMul(c.num, c.num))

\* tol_ < tol, i.e. num / sqrt(rad) > 1 - tol, decided without the root.
\* rad = 0 gives 0/0 or x/0: NaN or an infinity of the sign of num
TolBelow(c, tol) ==
  LET lim == RSub(One, tol)
      n2  == RMul(c.num, c.num)
      l2r == ScaledRad(c, tol)
  IN  IF IsNaN(c.num) \/ IsNaN(c.rad) \/ RLt(c.rad, Zero) THEN FALSE
      ELSE IF c.rad = Inf(1)
        THEN IsFinite(c.num) /\ RLt(One, tol)      \* x / inf = 0, inf / inf = NaN
      ELSE IF ~IsFinite(c.num) THEN c.num = Inf(1)
      ELSE IF c.rad = Zero THEN RGt(c.num, Zero)
      ELSE IF RGt(lim, Zero) THEN RGt(c.num, Zero) /\ RGt(n2, l2r)
      ELSE IF lim = Zero THEN RGt(c.num, Zero)
      ELSE RGe(c.num, Zero) \/ RLt(n2, l2r)

\* sort_index: std::sort of 0..k-1 (here 1..k) by d[i1] > d[i2].  The order of
\* equal entries is not defined, and with a NaN the comparison is no ordering
\* at all: every arrangement in which no later entry compares greater than an
\* earlier one is a possible result.
Perms(k) == { p \in [1..k -> 1..k] : \A i, j \in 1..k : p[i] = p[j] => i = j }

sort_index(d) ==
  { p \in Perms(Len(d)) :
      \A i, j \in 1..Len(d) : i < j => ~RGt(d[p[j]], d[p[i]]) }

reorder_rows(x, ind) == [i \in 1..Len(ind) |-> x[ind[i]]]
reorder(x, ind) == [i \in 1..Len(ind) |-> x[ind[i]]]

\* h * h.transpose() of the rank-2 drivers: no ridge
Gram2(h) == << << Dot(h[1], h[1]), Dot(h[1], h[2]) >>,
               << Dot(h[2], h[1]), Dot(h[2], h[2]) >> >>

\* rank-2 right-hand sides: row r of the factor against column i of A (dense:
\* every entry of the column, sparse: the stored ones)
B2Dense(A, f, r, i) == RSum([t \in 1..Len(A) |-> RMul(A[t][i], f[r][t])])
B2Sparse(S, f, r, i) ==
  RSum([e \in 1..Len(S.inner[i]) |->
          RMul(S.inner[i][e][2], f[r][S.inner[i][e][1]])])

\* wb of the W-update: wb(r, row) accumulates A(row, i) * h(r, i) over columns i
Wb2Dense(A, h, r, row) == RSum([i \in 1..NCols(A) |-> RMul(A[row][i], h[r][i])])
Wb2Sparse(S, h, r, row) ==
  RSum([i \in 1..S.Dim[2] |->
     RSum([e \in 1..Len(S.inner[i]) |->
        IF S.inner[i][e][1] = row THEN RMul(S.inner[i][e][2], h[r][i]) ELSE Zero])])

\* the W-update of a rank-2 driver: 2 x A.rows()
UpdateW2(sparse, A, h, nonneg) ==
  LET a == Gram2(h)
      S == dgCMatrix(A)
      wb(r, row) == IF sparse THEN Wb2Sparse(S, h, r, row) ELSE Wb2Dense(A, h, r, row)
  IN  FromCols([i \in 1..Len(A) |-> Kernel2(a, wb(1, i), wb(2, i), nonneg)], 2)

\* the H-update of a rank-2 driver: 2 x A.cols()
UpdateH2(sparse, A, w, nonneg) ==
  LET a == Gram2(w)
      S == dgCMatrix(A)
      b(r, i) == IF sparse THEN B2Sparse(S, w, r, i) ELSE B2Dense(A, w, r, i)
  IN  FromCols([i \in 1..NCols(A) |-> Kernel2(a, b(1, i), b(2, i), nonneg)], 2)

\* x.col(0).swap(x.row(0)) on a 2 x c matrix.  The column has two entries and
\* the swap runs over two positions: position 0 is x(0,0) on both sides,
\* position 1 exchanges x(1,0) with x(0,1).  With c = 1 the row has no second
\* entry and x(1,0) receives g, whatever lies behind the matrix.
SwapCol0Row0(x, g) ==
  IF Len(x[1]) >= 2
    THEN [x EXCEPT ![2][1] = x[1][2], ![1][2] = x[2][1]]
    ELSE [x EXCEPT ![2][1] = g]

VARIABLES nn, als, pj, ms
vars == <<nn, als, pj, ms>>

(***************************************************************************)
(* The solver as a state machine: one call of c_nnls on a small Gram       *)
(* matrix, followed for 2 x 2 systems by the rank-2 kernel on the same     *)
(* system.  als, pj and ms stay idle.                                      *)
(***************************************************************************)
MaxB == 2

\* symmetric positive-definite systems of order 1, 2 and 3
NnlsMats ==
  { << <<3>> >>,
    << <<2, 1>>, <<1, 2>> >>,
    << <<2, -1>>, <<-1, 2>> >>,
    << <<1, 1>>, <<1, 3>> >>,
    << <<2, 1, 0>>, <<1, 2, 1>>, <<0, 1, 2>> >>,
    << <<2, -1, 1>>, <<-1, 2, 1>>, <<1, 1, 3>> >> }

RECURSIVE BVecs(_)
BVecs(k) == IF k = 0 THEN { << >> }
            ELSE { <<v>> \o t : v \in (-MaxB)..MaxB, t \in BVecs(k - 1) }

FastMaxits == {0, 1, 10}
CdMaxits   == {0, 1, 100}

Idle == [pc |-> "idle"]

\* where a run goes after a step that produced x
PcAfter(x, pc) == IF VecOvf(x) THEN "cut" ELSE pc

InitNnls ==
  /\ \E a \in NnlsMats, fm \in FastMaxits, cm \in CdMaxits, nng \in BOOLEAN :
       \E b \in BVecs(Len(a)) :
         nn = [pc |-> "start", a |-> IntMat(a), b |-> IntVec(b),
               fast_maxit |-> fm, cd_maxit |-> cm, nonneg |-> nng,
               x |-> << >>, it |-> 0, rounds |-> << >>, kx |-> << >>]
  /\ als = Idle
  /\ pj = Idle
  /\ ms = Idle

\* x = a_llt.solve(b)
NnlsSolve ==
  /\ nn.pc = "start"
  /\ LET x == Solve(nn.a, nn.b)
     IN  nn' = [nn EXCEPT !.x = x, !.pc = PcAfter(x, "fast")]
  /\ UNCHANGED <<als, pj, ms>>

\* one round of the feasible-set loop
NnlsFastRound ==
  /\ nn.pc = "fast"
  /\ FastCond(nn.nonneg, nn.it, nn.fast_maxit, nn.x)
  /\ LET x == FastRound(nn.a, nn.b, nn.x)
     IN  nn' = [nn EXCEPT !.x = x, !.it = nn.it + 1,
                          !.rounds = Append(nn.rounds, find_gtz(nn.x)),
                          !.pc = PcAfter(x, "fast")]
  /\ UNCHANGED <<als, pj, ms>>

\* the feasible-set loop ends
NnlsFastExit ==
  /\ nn.pc = "fast"
  /\ ~FastCond(nn.nonneg, nn.it, nn.fast_maxit, nn.x)
  /\ nn' = [nn EXCEPT !.pc = "polish"]
  /\ UNCHANGED <<als, pj, ms>>

\* the return statement: x as it is, or refined by coordinate descent
NnlsPolish ==
  /\ nn.pc = "polish"
  /\ LET x == Polish(nn.a, nn.b, nn.x, nn.cd_maxit, CdTol, nn.nonneg)
     IN  nn' = [nn EXCEPT !.x = x, !.pc = PcAfter(x, "ret")]
  /\ UNCHANGED <<als, pj, ms>>

\* a 2 x 2 system is also given to the rank-2 kernel
NnlsKernel2 ==
  /\ nn.pc = "ret"
  /\ Len(nn.b) = 2
  /\ LET kx == Kernel2(nn.a, nn.b[1], nn.b[2], nn.nonneg)
     IN  nn' = [nn EXCEPT !.kx = kx, !.pc = PcAfter(kx, "done")]
  /\ UNCHANGED <<als, pj, ms>>

NnlsReturn ==
  /\ nn.pc = "ret"
  /\ Len(nn.b) # 2
  /\ nn' = [nn EXCEPT !.pc = "done"]
  /\ UNCHANGED <<als, pj, ms>>

NextNnls ==
  \/ NnlsSolve
  \/ NnlsFastRound
  \/ NnlsFastExit
  \/ NnlsPolish
  \/ NnlsKernel2
  \/ NnlsReturn

SpecNnls == InitNnls /\ [][NextNnls]_vars

(***************************************************************************)
(* The ALS drivers as a state machine: one call of Rcpp_nmf_sparse,        *)
(* Rcpp_nmf_dense, Rcpp_nmf2_sparse or Rcpp_nmf2_dense, one action per     *)
(* step of the driver.  The caller may trip the interrupt token at any     *)
(* moment; Rcpp::checkUserInterrupt() notices it.  nn, pj and ms stay     *)
(* idle.                                                                   *)
(***************************************************************************)
DefaultFastMaxit == 10
DefaultCdMaxit   == 100

Drivers == {"nmf_sparse", "nmf_dense", "nmf2_sparse", "nmf2_dense"}
IsRank2(drv)  == drv \in {"nmf2_sparse", "nmf2_dense"}
IsSparse(drv) == drv \in {"nmf_sparse", "nmf2_sparse"}

\* the input matrices A (integer entries), m and n in 1..2
AlsMats ==
  { << <<1>> >>, << <<-1>> >>, << <<1, 1>> >>, << <<1>>, <<1>> >>,
    << <<0, 0>>, <<0, 0>> >>, << <<1, 1>>, <<1, 1>> >>,
    << <<1, 0>>, <<0, 1>> >>, << <<2, 0>>, <<0, 1>> >>,
    << <<1, 0>>, <<0, 2>> >>, << <<1, 1>>, <<0, 1>> >>,
    << <<-1, 0>>, <<0, 1>> >> }

\* the initial factors with k rows and c columns
AlsFactors(k, c) ==
  IF k = 1 THEN { <<[j \in 1..c |-> 1]>> }
  ELSE IF c = 1 THEN { << <<1>>, <<1>> >>, << <<1>>, <<0>> >> }
  ELSE { << <<1, 0>>, <<0, 1>> >>, << <<1, 1>>, <<0, 1>> >>,
         << <<1, 1>>, <<1, 1>> >> }

\* the penalties <<L1_w, L1_h>>
AlsL1s == { <<0, 0>>, <<1, 1>> }

\* symmetric = true is given with a symmetric A of order 2
AlsSymmetric(A) ==
  IF Len(A) = 2 /\ NCols(A) = 2 /\ A[1][2] = A[2][1] THEN BOOLEAN ELSE {FALSE}

AlsStart(drv, A, f, sym, nng, dg, mx, l1) ==
  [pc |-> "entry", driver |-> drv, A |-> IntMat(A), symmetric |-> sym,
   nonneg |-> nng, diag |-> dg, maxit |-> mx,
   L1_w |-> RInt(l1[1]), L1_h |-> RInt(l1[2]),
   w |-> IF IsRank2(drv) THEN << >> ELSE IntMat(f),
   h |-> IF IsRank2(drv) THEN IntMat(f) ELSE << >>,
   d |-> << >>, w_it |-> << >>, h_it |-> << >>, tol_ |-> TolOne, it |-> 0,
   tripped |-> FALSE, trip_at |-> "none", ran_tripped |-> 0,
   completed |-> 0, exit |-> "none",
   steps |-> << >>, w_read |-> << >>, h_scaled |-> << >>, h_read |-> << >>,
   before |-> << >>, ret |-> << >>]

Init ==
  /\ \E drv \in Drivers, A \in AlsMats, nng \in BOOLEAN, dg \in BOOLEAN,
        mx \in 0..MaxIter :
       \/ /\ IsRank2(drv)
          /\ \E f \in AlsFactors(2, NCols(A)) :
               als = AlsStart(drv, A, f, FALSE, nng, dg, mx, <<0, 0>>)
       \/ /\ ~IsRank2(drv)
          /\ \E k \in 1..2, l1 \in AlsL1s :
               \E f \in AlsFactors(k, Len(A)),
                  sym \in AlsSymmetric(A) :
                 als = AlsStart(drv, A, f, sym, nng, dg, mx, l1)
  /\ nn = Idle
  /\ pj = Idle
  /\ ms = Idle

AlsRunning == als.pc \notin {"idle", "done", "interrupted", "cut"}

\* the caller trips the interrupt token
Trip ==
  /\ AlsRunning
  /\ ~als.tripped
  /\ als' = [als EXCEPT !.tripped = TRUE, !.trip_at = als.pc]
  /\ UNCHANGED <<nn, pj, ms>>

\* the factor updates that have run with the token tripped and not yet seen
RanTripped == IF als.tripped THEN als.ran_tripped + 1 ELSE als.ran_tripped

\* Rcpp::checkUserInterrupt(): throws when the token is tripped
Checkpoint(at, next) ==
  /\ als.pc = at
  /\ als' = [als EXCEPT !.pc = IF als.tripped THEN "interrupted" ELSE next]
  /\ UNCHANGED <<nn, pj, ms>>

Ones(k) == [i \in 1..k |-> One]

\* the checkpoint at entry and the declarations before the loop
AlsEnter ==
  /\ als.pc = "entry"
  /\ als' = IF als.tripped THEN [als EXCEPT !.pc = "interrupted"]
            ELSE IF IsRank2(als.driver)
              THEN [als EXCEPT !.w = ZeroMat(2, Len(als.A)), !.d = Ones(2),
                               !.tol_ = TolOne, !.it = 0, !.pc = "loop"]
              ELSE [als EXCEPT !.h = ZeroMat(Len(als.w), NCols(als.A)),
                               !.d = Ones(Len(als.w)),
                               !.tol_ = TolOne, !.it = 0, !.pc = "loop"]
  /\ UNCHANGED <<nn, pj, ms>>

\* for (...; it < maxit; ...): enter the body or leave the loop
LoopTest ==
  /\ als.pc = "loop"
  /\ als' = IF als.it < als.maxit
              THEN [als EXCEPT !.steps = << >>, !.w_read = << >>,
                               !.h_scaled = << >>, !.h_read = << >>,
                               !.pc = IF IsRank2(als.driver) THEN "update_w2"
                                      ELSE "update_h"]
              ELSE [als EXCEPT !.exit = "limit", !.pc = "finalize"]
  /\ UNCHANGED <<nn, pj, ms>>

\* where a driver goes after a step that produced the matrix M
PcAfterMat(M, pc) == IF MatOvf(M) THEN "cut" ELSE pc

\* the projection a general-k driver calls: A (or its transpose) against f
AlsProject(drv, A, f, nonneg, L1) ==
  IF IsSparse(drv)
    THEN c_project_sparse(dgCMatrix(A), f, nonneg, DefaultFastMaxit,
                          DefaultCdMaxit, CdTol, L1, Zero)
    ELSE Rcpp_project_dense(A, f, nonneg, DefaultFastMaxit,
                            DefaultCdMaxit, CdTol, L1, Zero)

\* "update h"
UpdateH ==
  /\ als.pc = "update_h"
  /\ \E h \in { AlsProject(als.driver, als.A, als.w, als.nonneg, als.L1_h) } :
         als' = [als EXCEPT !.h = h, !.ran_tripped = RanTripped,
                            !.steps = Append(als.steps, "update h"),
                            !.w_read = als.w,
                            !.pc = PcAfterMat(h, "check_h")]
  /\ UNCHANGED <<nn, pj, ms>>

CheckH == Checkpoint("check_h", "scale_h")

\* "reset diagonal and scale h"
ScaleH ==
  /\ als.pc = "scale_h"
  /\ \E r \in { Rescale(als.h, als.d, als.diag) } :
         als' = [als EXCEPT !.h = r.m, !.d = r.d,
                            !.steps = Append(als.steps, "scale h"),
                            !.h_scaled = r.m,
                            !.pc = IF MatOvf(r.m) \/ VecOvf(r.d) THEN "cut"
                                   ELSE "update_w"]
  /\ UNCHANGED <<nn, pj, ms>>

\* a snapshot taken after the projection has assigned w
SnapshotAfter(w_old, w_new) == w_new

\* Eigen::MatrixXd w_it = w, declared before the projection assigns w
Snapshot(w_old, w_new) == w_old

\* "update w": the snapshot w_it, then the projection of A (symmetric) or At
UpdateW ==
  /\ als.pc = "update_w"
  /\ \E w \in { AlsProject(als.driver,
                             IF als.symmetric THEN als.A ELSE Transpose(als.A),
                             als.h, als.nonneg, als.L1_w) } :
         als' = [als EXCEPT !.w_it = Snapshot(als.w, w), !.w = w,
                            !.ran_tripped = RanTripped,
                            !.steps = als.steps \o <<"snapshot w", "update w">>,
                            !.h_read = als.h,
                            !.pc = PcAfterMat(w, "check_w")]
  /\ UNCHANGED <<nn, pj, ms>>

CheckW == Checkpoint("check_w", "scale_w")

\* "reset diagonal and scale w"
ScaleW ==
  /\ als.pc = "scale_w"
  /\ \E r \in { Rescale(als.w, als.d, als.diag) } :
         als' = [als EXCEPT !.w = r.m, !.d = r.d,
                            !.steps = Append(als.steps, "scale w"),
                            !.pc = IF MatOvf(r.m) \/ VecOvf(r.d) THEN "cut"
                                   ELSE "tol"]
  /\ UNCHANGED <<nn, pj, ms>>

\* "calculate tolerance": tol_ = cor(w, w_it)
CalcTol ==
  /\ als.pc = "tol"
  /\ \E c \in { cor(als.w, als.w_it) } :
         als' = [als EXCEPT !.tol_ = c,
                            !.steps = Append(als.steps, "tolerance"),
                            !.pc = IF TestOvf(c, Tol) THEN "cut" ELSE "test"]
  /\ UNCHANGED <<nn, pj, ms>>

\* a driver whose break also counted the iteration it ends
ItAfterBreakCounted(it) == it + 1

\* the value of it when the loop is left by break: ++it is skipped
ItAfterBreak(it) == it

\* the steps of the iteration once its break test has run (general k)
IterSteps(drv, steps) ==
  IF IsRank2(drv) THEN steps ELSE Append(steps, "convergence")

\* "check for convergence": break, or ++it and the loop test again
ConvTest ==
  /\ als.pc = "test"
  /\ als' = IF TolBelow(als.tol_, Tol)
              THEN [als EXCEPT !.it = ItAfterBreak(als.it), !.exit = "conv",
                               !.completed = als.completed + 1,
                               !.steps = IterSteps(als.driver, als.steps),
                               !.pc = "finalize"]
              ELSE [als EXCEPT !.it = als.it + 1,
                               !.completed = als.completed + 1,
                               !.steps = IterSteps(als.driver, als.steps),
                               !.pc = "loop"]
  /\ UNCHANGED <<nn, pj, ms>>

\* what the driver returns
AlsReturn(w, d, h, tol_, it) ==
  [w |-> Transpose(w), d |-> d, h |-> h, tol |-> tol_, iter |-> it]

\* "reorder factors by diagonal" and the return of a general-k driver
Finalize ==
  /\ als.pc = "finalize"
  /\ ~IsRank2(als.driver)
  /\ \E indx \in IF als.diag THEN sort_index(als.d)
                 ELSE { [i \in 1..Len(als.d) |-> i] } :
       als' = [als EXCEPT
                 !.before = [w |-> als.w, d |-> als.d, h |-> als.h, indx |-> indx],
                 !.w = reorder_rows(als.w, indx),
                 !.d = reorder(als.d, indx),
                 !.h = reorder_rows(als.h, indx),
                 !.ret = AlsReturn(reorder_rows(als.w, indx), reorder(als.d, indx),
                                   reorder_rows(als.h, indx), als.tol_, als.it),
                 !.pc = "done"]
  /\ UNCHANGED <<nn, pj, ms>>

\* rank 2, "update w": the closed form for every row of A
UpdateW2Step ==
  /\ als.pc = "update_w2"
  /\ \E w \in { UpdateW2(IsSparse(als.driver), als.A, als.h, als.nonneg) } :
         als' = [als EXCEPT !.w = w, !.ran_tripped = RanTripped,
                            !.pc = PcAfterMat(w, "scale_w2")]
  /\ UNCHANGED <<nn, pj, ms>>

\* rank 2, "reset diagonal and scale w"
ScaleW2 ==
  /\ als.pc = "scale_w2"
  /\ \E r \in { Rescale(als.w, als.d, als.diag) } :
         als' = [als EXCEPT !.w = r.m, !.d = r.d,
                            !.pc = IF MatOvf(r.m) \/ VecOvf(r.d) THEN "cut"
                                   ELSE "update_h2"]
  /\ UNCHANGED <<nn, pj, ms>>

\* rank 2, "update h": the snapshot h_it, then the closed form per column
UpdateH2Step ==
  /\ als.pc = "update_h2"
  /\ \E h \in { UpdateH2(IsSparse(als.driver), als.A, als.w, als.nonneg) } :
         als' = [als EXCEPT !.h_it = als.h, !.h = h,
                            !.ran_tripped = RanTripped,
                            !.pc = PcAfterMat(h, "scale_h2")]
  /\ UNCHANGED <<nn, pj, ms>>

\* rank 2, "reset diagonal and scale h"
ScaleH2 ==
  /\ als.pc = "scale_h2"
  /\ \E r \in { Rescale(als.h, als.d, als.diag) } :
         als' = [als EXCEPT !.h = r.m, !.d = r.d,
                            !.pc = IF MatOvf(r.m) \/ VecOvf(r.d) THEN "cut"
                                   ELSE "tol2"]
  /\ UNCHANGED <<nn, pj, ms>>

\* rank 2, "calculate tolerance": tol_ = cor(h, h_it)
CalcTol2 ==
  /\ als.pc = "tol2"
  /\ \E c \in { cor(als.h, als.h_it) } :
         als' = [als EXCEPT !.tol_ = c,
                            !.pc = IF TestOvf(c, Tol) THEN "cut" ELSE "check2"]
  /\ UNCHANGED <<nn, pj, ms>>

Check2 == Checkpoint("check2", "test")

\* what a read behind a matrix may find
Garbage == { Zero, One, NaN }

\* "sort factors by diagonal value" and the return of a rank-2 driver
Finalize2 ==
  /\ als.pc = "finalize"
  /\ IsRank2(als.driver)
  /\ IF als.diag /\ RLt(als.d[1], als.d[2])
       THEN \E gw \in IF Len(als.w[1]) >= 2 THEN {Zero} ELSE Garbage,
               gh \in IF Len(als.h[1]) >= 2 THEN {Zero} ELSE Garbage :
              LET w == SwapCol0Row0(als.w, gw)
                  h == SwapCol0Row0(als.h, gh)
                  d == << als.d[2], als.d[1] >>
              IN  als' = [als EXCEPT
                            !.before = [w |-> als.w, d |-> als.d, h |-> als.h,
                                        swapped |-> TRUE],
                            !.w = w, !.h = h, !.d = d,
                            !.ret = AlsReturn(w, d, h, als.tol_, als.it),
                            !.pc = "done"]
       ELSE als' = [als EXCEPT
                      !.before = [w |-> als.w, d |-> als.d, h |-> als.h,
                                  swapped |-> FALSE],
                      !.ret = AlsReturn(als.w, als.d, als.h, als.tol_, als.it),
                      !.pc = "done"]
  /\ UNCHANGED <<nn, pj, ms>>

Next ==
  \/ Trip
  \/ AlsEnter
  \/ LoopTest
  \/ UpdateH
  \/ CheckH
  \/ ScaleH
  \/ UpdateW
  \/ CheckW
  \/ ScaleW
  \/ CalcTol
  \/ ConvTest
  \/ Finalize
  \/ UpdateW2Step
  \/ ScaleW2
  \/ UpdateH2Step
  \/ ScaleH2
  \/ CalcTol2
  \/ Check2
  \/ Finalize2

Spec == Init /\ [][Next]_vars

(***************************************************************************)
(* A projection as a state machine: one call of Rcpp_project_dense or      *)
(* c_project_sparse.  The columns of A are handed out one at a time to     *)
(* NThreads workers (schedule(dynamic)); each worker builds its own b,     *)
(* solves, and stores column i of h.  The shapes of A and w are whatever   *)
(* the caller passed.  nn, als and ms stay idle.                           *)
(***************************************************************************)
Workers == 1..NThreads

ProjMats ==
  { << <<1>> >>, << <<1, 2>> >>, << <<1>>, <<1>> >>,
    << <<1, 0>>, <<0, 1>> >>, << <<1, 1>>, <<0, 2>> >>,
    << <<1, 2, 0>> >>, << <<-1, 1>>, <<1, 0>> >> }

\* the factors w handed in, with their column counts; k = 0 is the first
ProjFactors ==
  { [w |-> << >>, cols |-> 1],
    [w |-> << <<1>> >>, cols |-> 1],
    [w |-> << <<1, 1>> >>, cols |-> 2],
    [w |-> << <<1>>, <<1>> >>, cols |-> 1],
    [w |-> << <<1, 0>>, <<0, 1>> >>, cols |-> 2],
    [w |-> << <<1, 1>>, <<0, 1>> >>, cols |-> 2] }

ProjL1s == {0, 1}

InitProj ==
  /\ \E sparse \in BOOLEAN, A \in ProjMats, f \in ProjFactors,
        nng \in BOOLEAN, l1 \in ProjL1s :
       \E g \in IF Len(A) > f.cols THEN Garbage ELSE {Zero} :
         pj = [pc |-> "entry", sparse |-> sparse, A |-> IntMat(A),
               w |-> IntMat(f.w), wcols |-> f.cols, nonneg |-> nng,
               L1 |-> RInt(l1), behind |-> g,
               a |-> << >>, h |-> << >>, next |-> 1,
               wk |-> [t \in Workers |-> [st |-> "idle", i |-> 0, b |-> << >>]],
               stored |-> << >>, oob |-> FALSE, err |-> "none"]
  /\ nn = Idle
  /\ als = Idle
  /\ ms = Idle

\* the statements before the parallel loop: a, its ridge, h(k, A.cols())
ProjEnter ==
  /\ pj.pc = "entry"
  /\ pj' = [pj EXCEPT !.a = Gram(pj.w),
                      !.h = ZeroMat(Len(pj.w), NCols(pj.A)),
                      !.next = 1, !.pc = "parallel"]
  /\ UNCHANGED <<nn, als, ms>>

\* schedule(dynamic): an idle worker takes the next column
Grab(t) ==
  /\ pj.pc = "parallel"
  /\ pj.wk[t].st = "idle"
  /\ pj.next <= NCols(pj.A)
  /\ pj' = [pj EXCEPT !.wk[t] = [st |-> "has", i |-> pj.next, b |-> << >>],
                      !.next = pj.next + 1]
  /\ UNCHANGED <<nn, als, ms>>

\* does the right-hand side of column i read w past its last column?
ReadsPast(i) ==
  IF pj.sparse THEN ReadsPastSparse(dgCMatrix(pj.A), pj.w, i)
  ELSE ReadsPastDense(pj.A, pj.w, i)

\* the worker builds its own right-hand side b
BuildB(t) ==
  /\ pj.pc = "parallel"
  /\ pj.wk[t].st = "has"
  /\ LET i == pj.wk[t].i
         b == IF pj.sparse
                THEN BSparse(dgCMatrix(pj.A), pj.w, i, pj.L1, pj.behind)
                ELSE BDense(pj.A, pj.w, i, pj.L1, pj.behind)
     IN  pj' = [pj EXCEPT !.wk[t].st = "built", !.wk[t].b = b,
                          !.oob = pj.oob \/ ReadsPast(i)]
  /\ UNCHANGED <<nn, als, ms>>

\* a read past the end of w may also end the process
Crash(t) ==
  /\ pj.pc = "parallel"
  /\ pj.wk[t].st = "has"
  /\ ReadsPast(pj.wk[t].i)
  /\ pj' = [pj EXCEPT !.oob = TRUE, !.pc = "crashed"]
  /\ UNCHANGED <<nn, als, ms>>

\* h.col(i) = c_nnls(a, b, a_llt, ...)
SolveWrite(t) ==
  /\ pj.pc = "parallel"
  /\ pj.wk[t].st = "built"
  /\ LET x == c_nnls(pj.a, pj.wk[t].b, DefaultFastMaxit, DefaultCdMaxit,
                     CdTol, pj.nonneg)
     IN  pj' = [pj EXCEPT !.h = WriteCol(pj.h, pj.wk[t].i, x),
                          !.wk[t] = [st |-> "idle", i |-> 0, b |-> << >>],
                          !.stored = Append(pj.stored, pj.wk[t].i),
                          !.pc = PcAfter(x, "parallel")]
  /\ UNCHANGED <<nn, als, ms>>

\* the end of the parallel region and the return of h
Join ==
  /\ pj.pc = "parallel"
  /\ pj.next > NCols(pj.A)
  /\ \A t \in Workers : pj.wk[t].st = "idle"
  /\ pj' = [pj EXCEPT !.pc = "done"]
  /\ UNCHANGED <<nn, als, ms>>

NextProj ==
  \/ ProjEnter
  \/ \E t \in Workers : Grab(t)
  \/ \E t \in Workers : BuildB(t)
  \/ \E t \in Workers : Crash(t)
  \/ \E t \in Workers : SolveWrite(t)
  \/ Join

SpecProj == InitProj /\ [][NextProj]_vars

(***************************************************************************)
(* The loss as a state machine: one call of Rcpp_mse_sparse or             *)
(* Rcpp_mse_dense.  The caller holds an m x k matrix W and passes it as it *)
(* is ("tall") or transposed ("wide").  The columns of A are taken in any  *)
(* order (schedule(dynamic)); each loss goes to its own entry of losses.   *)
(* nn, als and pj stay idle.                                               *)
(***************************************************************************)
MseMats ==
  { << <<1>> >>, << <<1, 2>> >>, << <<2>>, <<0>> >>,
    << <<1, 0>>, <<0, 2>> >>, << <<1, 1>>, <<0, 1>> >> }

\* the caller's W, m x k
MseWs(m, k) ==
  IF m = 1 /\ k = 1 THEN { << <<1>> >>, << <<2>> >> }
  ELSE IF m = 1 THEN { << <<1, 0>> >>, << <<1, 2>> >> }
  ELSE IF k = 1 THEN { << <<1>>, <<0>> >>, << <<1>>, <<2>> >> }
  ELSE { << <<1, 0>>, <<0, 1>> >>, << <<1, 1>>, <<0, 1>> >>,
         << <<0, 1>>, <<0, 0>> >> }

MseDs(k) == IF k = 1 THEN { <<1>>, <<2>> } ELSE { <<1, 1>>, <<2, 1>> }

\* h, k x n
MseHs(k, n) ==
  IF k = 1 /\ n = 1 THEN { << <<1>> >> }
  ELSE IF k = 1 THEN { << <<1, 1>> >>, << <<1, 0>> >> }
  ELSE IF n = 1 THEN { << <<1>>, <<1>> >>, << <<1>>, <<0>> >> }
  ELSE { << <<1, 0>>, <<0, 1>> >>, << <<1, 1>>, <<0, 1>> >> }

InitMse ==
  /\ \E sparse \in BOOLEAN, A \in MseMats, k \in 1..2,
        given \in {"tall", "wide"} :
       \E W \in MseWs(Len(A), k), d \in MseDs(k), h \in MseHs(k, NCols(A)) :
         ms = [pc |-> "entry", sparse |-> sparse, A |-> IntMat(A),
               W |-> IntMat(W), given |-> given,
               w |-> IF given = "tall" THEN IntMat(W)
                     ELSE Mat(Transpose(IntMat(W))),
               d |-> IntVec(d), h |-> IntMat(h),
               losses |-> [i \in 1..NCols(A) |-> Zero],
               todo |-> 1..NCols(A), ret |-> Zero]
  /\ nn = Idle
  /\ als = Idle
  /\ pj = Idle

\* if (w.rows() == h.rows()) w.transposeInPlace();
MseEnter ==
  /\ ms.pc = "entry"
  /\ ms' = [ms EXCEPT !.w = MseOrient(ms.w, ms.h), !.pc = "scale"]
  /\ UNCHANGED <<nn, als, pj>>

\* "multiply w by diagonal": every column of w is scaled by one worker
MseMultiply ==
  /\ ms.pc = "scale"
  /\ ms' = [ms EXCEPT !.w = MseScale(ms.w, ms.d), !.pc = "loss"]
  /\ UNCHANGED <<nn, als, pj>>

\* a worker takes column i and stores losses(i)
MseColumn(i) ==
  /\ ms.pc = "loss"
  /\ i \in ms.todo
  /\ LET l == IF ms.sparse THEN LossSparse(dgCMatrix(ms.A), ms.w, ms.h, i)
              ELSE LossDense(ms.A, ms.w, ms.h, i)
     IN  ms' = [ms EXCEPT !.losses[i] = l, !.todo = ms.todo \ {i}]
  /\ UNCHANGED <<nn, als, pj>>

\* return losses.sum() / (A.cols() * A.rows())
MseReturn ==
  /\ ms.pc = "loss"
  /\ ms.todo = {}
  /\ ms' = [ms EXCEPT !.ret = MseMean(ms.losses, Len(ms.A), NCols(ms.A)),
                      !.pc = "done"]
  /\ UNCHANGED <<nn, als, pj>>

NextMse ==
  \/ MseEnter
  \/ MseMultiply
  \/ \E i \in 1..2 : MseColumn(i)
  \/ MseReturn

SpecMse == InitMse /\ [][NextMse]_vars

NnlsReturned == nn.pc \in {"ret", "done"}

\* C1: with nonneg = true every component of the vector that c_nnls returns
\* is >= 0, for every fast_maxit and cd_maxit
C1_NonnegResult ==
  (NnlsReturned /\ nn.nonneg) => \A i \in 1..Len(nn.x) : RGe(nn.x[i], Zero)

\* C2: on a 2 x 2 system with nonneg = true the rank-2 kernel returns the
\* same pair as c_nnls with fast_maxit = 10 and cd_maxit = 100
C2_KernelEqualsNnls ==
  (nn.pc = "done" /\ Len(nn.b) = 2 /\ nn.nonneg
     /\ nn.fast_maxit = 10 /\ nn.cd_maxit = 100) => nn.kx = nn.x


AlsDone == als.pc = "done"

\* C3: the returned iter is the number of complete outer iterations, whether
\* the loop ended at maxit or by the convergence break
C3_IterIsCompleted == AlsDone => als.ret.iter = als.completed

\* C4: iter = maxit only when the loop ended by the iteration cap, and a loop
\* ended by the convergence break returns iter < maxit
C4_IterMaxitMeansLimit ==
  AlsDone => /\ (als.ret.iter = als.maxit => als.exit = "limit")
             /\ (als.exit = "conv" => als.ret.iter < als.maxit)

\* C4 witness: a driver that broke out of its last allowed iteration
C4_BreakInLastIteration ==
  AlsDone /\ als.exit = "conv" /\ als.ret.iter = als.maxit - 1

\* C5: every entry of the returned d is strictly positive
C5_DPositive ==
  AlsDone => \A i \in 1..Len(als.ret.d) : RGt(als.ret.d[i], Zero)

\* C6: with diag, a general-k driver returns W, H and d rearranged by one and
\* the same permutation and d non-increasing; a rank-2 driver returns
\* d[0] >= d[1]
C6_SortedByD ==
  (AlsDone /\ als.diag) =>
     IF IsRank2(als.driver) THEN RGe(als.ret.d[1], als.ret.d[2])
     ELSE /\ \E p \in Perms(Len(als.before.d)) :
               /\ als.ret.w = Transpose(reorder_rows(als.before.w, p))
               /\ als.ret.h = reorder_rows(als.before.h, p)
               /\ als.ret.d = reorder(als.before.d, p)
          /\ \A i, j \in 1..Len(als.ret.d) :
               i < j => RGe(als.ret.d[i], als.ret.d[j])

\* C7: when a rank-2 driver finds d[0] < d[1] with diag, it exchanges the two
\* rows of W, the two rows of H and the two entries of d, nothing else
C7_SwapExchangesRows ==
  (AlsDone /\ IsRank2(als.driver) /\ als.before.swapped) =>
     /\ als.w = << als.before.w[2], als.before.w[1] >>
     /\ als.h = << als.before.h[2], als.before.h[1] >>
     /\ als.d = << als.before.d[2], als.before.d[1] >>

\* the factor a driver has just rescaled, if it has
JustScaled == als.pc \in {"update_w", "tol", "update_h2", "tol2"}
Scaled == IF als.pc \in {"update_w", "tol2"} THEN als.h ELSE als.w

\* C8 as stated: with diag, every row of the factor just rescaled sums to 1
\* (up to the ridge), a row of zeros included
C8_RowsSumToOne ==
  (JustScaled /\ als.diag) =>
     \A i \in 1..Len(Scaled) :
        RLe(RAbs(RSub(One, RSum(Scaled[i]))), Ridge)

\* C8 amended: with diag, a row rescaled by a finite non-zero d[i] sums to
\* (d[i] - ridge) / d[i], its sum before over that sum plus the ridge; a row
\* whose sum was 0 (d[i] = ridge), a row of zeros included, sums to 0; a row
\* divided by a d[i] that is 0 or not finite has no finite sum
C8_RowSumAfterRescale ==
  (JustScaled /\ als.diag) =>
     \A i \in 1..Len(Scaled) :
        LET s  == RSum(Scaled[i])
            di == als.d[i]
        IN  /\ (IsFinite(di) /\ di # Zero /\ ~IsOvf(RMul(s, di)))
                 => RMul(s, di) = RSub(di, Ridge)
            /\ di = Ridge => s = Zero
            /\ (~IsFinite(di) \/ di = Zero) => ~IsFinite(s)

\* C8 witness: a row of zeros has been rescaled
C8_ZeroRowRescaled ==
  /\ JustScaled /\ als.diag
  /\ \E i \in 1..Len(Scaled) : als.d[i] = Ridge /\ RSum(Scaled[i]) = Zero


\* the projection with its columns processed one after the other
ProjSequential ==
  IF pj.sparse
    THEN c_project_sparse(dgCMatrix(pj.A), pj.w, pj.nonneg, DefaultFastMaxit,
                          DefaultCdMaxit, CdTol, pj.L1, pj.behind)
    ELSE Rcpp_project_dense(pj.A, pj.w, pj.nonneg, DefaultFastMaxit,
                            DefaultCdMaxit, CdTol, pj.L1, pj.behind)

\* C9: whatever the number of workers and the order in which the columns are
\* taken and finished, the h a projection returns is the h of the columns
\* processed sequentially; a worker stores only into its own column
C9_SameAsSequential ==
  /\ pj.pc = "done" => pj.h = ProjSequential
  /\ \A t, u \in Workers :
       (t # u /\ pj.wk[t].st # "idle" /\ pj.wk[u].st # "idle")
          => pj.wk[t].i # pj.wk[u].i

\* C9 witness: a projection is done whose workers stored a later column
\* before an earlier one
C9_DoneOutOfOrder ==
  /\ pj.pc = "done" /\ Len(pj.w) >= 1
  /\ \E p, q \in 1..Len(pj.stored) : p < q /\ pj.stored[p] > pj.stored[q]

ShapeInvalid == pj.wcols # Len(pj.A) \/ Len(pj.w) = 0

\* C10: a projection whose w has a column count other than the row count of
\* A, or k = 0, ends with an InvalidShape error: it returns no h and reads no
\* element out of range
C10_InvalidShapeRejected ==
  (pj.pc # "idle" /\ ShapeInvalid) =>
     /\ pj.pc # "done"
     /\ pj.pc # "crashed"
     /\ ~pj.oob

\* the positions at which a factor update is about to run
UpdatePcs == {"update_h", "update_w", "update_w2", "update_h2"}

\* C11: in every driver a token tripped before the first factor update has
\* started lets no update run, and a token tripped during one factor update
\* is seen by a checkpoint before the next factor update starts: after the
\* update it was tripped in, no second update runs
C11_TripSeenBeforeNextUpdate ==
  /\ (als.pc # "idle" /\ als.trip_at = "entry") => als.ran_tripped = 0
  /\ (als.pc # "idle" /\ als.trip_at \in UpdatePcs) => als.ran_tripped <= 1

\* the squared error of W diag(d) H against A over m * n, W being m x k
SquaredError(A, W, d, h) ==
  RDiv(RSum([r \in 1..Len(A) |->
         RSum([c \in 1..NCols(A) |->
           LET e == RSub(RSum([j \in 1..Len(d) |->
                           RMul(RMul(W[r][j], d[j]), h[j][c])]),
                         A[r][c])
           IN  RMul(e, e)])]),
       RInt(Len(A) * NCols(A)))

\* C12: the loss takes W in either orientation: whichever of the m x k
\* matrix and its k x m transpose was passed, m = k included, the value
\* returned is the squared error of W diag(d) H against A over m * n, and
\* the two orientations give the same value
C12_EitherOrientation ==
  ms.pc = "done" =>
     /\ ms.ret = SquaredError(ms.A, ms.W, ms.d, ms.h)
     /\ Rcpp_mse_dense(ms.A, ms.W, ms.d, ms.h)
          = Rcpp_mse_dense(ms.A, Transpose(ms.W), ms.d, ms.h)
     /\ Rcpp_mse_sparse(dgCMatrix(ms.A), ms.W, ms.d, ms.h)
          = Rcpp_mse_sparse(dgCMatrix(ms.A), Transpose(ms.W), ms.d, ms.h)

\* the indices held by an index vector
Indices(g) == { g[p] : p \in 1..Len(g) }

\* the feasible set of round r and the set it was drawn from
FeasibleSet(r) == Indices(nn.rounds[r])
FeasibleBefore(r) == IF r = 1 THEN 1..Len(nn.b) ELSE FeasibleSet(r - 1)

\* C13: in the feasible-set loop with nonneg, the feasible set of every round
\* is a proper subset of the feasible set of the round before (of all the
\* indices for the first round), after a round every index outside its
\* feasible set holds exactly 0, and the loop runs at most
\* min(fast_maxit, k + 1) rounds
C13_FeasibleSetShrinks ==
  (nn.pc # "idle" /\ nn.nonneg) =>
     /\ nn.it = Len(nn.rounds)
     /\ \A r \in 1..Len(nn.rounds) :
           /\ FeasibleSet(r) \subseteq FeasibleBefore(r)
           /\ FeasibleSet(r) # FeasibleBefore(r)
     /\ (nn.pc \in {"fast", "polish"} /\ nn.it >= 1) =>
           \A i \in 1..Len(nn.b) :
              i \notin FeasibleSet(nn.it) => nn.x[i] = Zero
     /\ nn.it <= nn.fast_maxit
     /\ nn.it <= Len(nn.b) + 1

\* C13 witness: a second round was needed and has run, on a feasible set
\* that lost an index, and an entry outside it was set to 0
C13_TwoRounds ==
  /\ nn.pc = "fast" /\ nn.nonneg /\ nn.it = 2
  /\ FeasibleSet(2) # {}
  /\ \E i \in FeasibleSet(1) : i \notin FeasibleSet(2) /\ nn.x[i] = Zero

\* the steps of one iteration of a general-k driver, in their order
IterOrder ==
  << "update h", "scale h", "snapshot w", "update w", "scale w",
     "tolerance", "convergence" >>

\* C14: in a general-k driver the steps of an iteration run in the order
\* H-update, H-rescale, snapshot of W, W-update, W-rescale, statistic, break
\* test; the W-update reads the H rescaled in the same iteration, the
\* snapshot is the W the H-update of that iteration read, and the statistic
\* compares the rescaled new W with that snapshot
C14_IterationOrder ==
  (als.pc # "idle" /\ ~IsRank2(als.driver)) =>
     /\ Len(als.steps) <= Len(IterOrder)
     /\ als.steps = SubSeq(IterOrder, 1, Len(als.steps))
     /\ Len(als.steps) >= 4 =>
           /\ als.h_read = als.h_scaled
           /\ als.w_it = als.w_read
     /\ als.pc = "test" =>
           /\ Len(als.steps) = 6
           /\ als.tol_ = cor(als.w, als.w_read)
           /\ als.h = als.h_scaled

\* C14 witness: the statistic of a second iteration has been taken with diag,
\* of a W and an H that the iteration changed
C14_SecondIterationChanged ==
  /\ als.pc = "test" /\ ~IsRank2(als.driver) /\ als.diag /\ als.it = 1
  /\ als.w # als.w_it
  /\ Len(als.w) = 2

=============================================================================
